---- MODULE Spec2Model ----
(***************************************************************************)
(* Model of the owockibot SDK (openfredbot/bounty-hunter):                 *)
(*   owockibot/client.py        BountyClient        (blocking)             *)
(*   owockibot/async_client.py  AsyncBountyClient   (non-blocking)         *)
(*   owockibot/models.py        Bounty, ...                                *)
(*                                                                         *)
(* Spec        one logical call of a public operation, run on a blocking   *)
(*             and a non-blocking client side by side against the same     *)
(*             sequence of per-attempt outcomes.                           *)
(* SpecSession the non-blocking client's session life cycle with a request *)
(*             interleaved with __aenter__, __aexit__ and close().         *)
(* SpecList    the client-side filtering of list_bounties.                 *)
(* SpecMap     what the operations make of the JSON object of a success    *)
(*             response: Bounty.from_dict, ClaimResult, SubmitResult.      *)
(***************************************************************************)
EXTENDS Integers, Sequences, FiniteSets, TLC

VARIABLES
    max_retries,     \* self.max_retries
    retry_delay,     \* self.retry_delay
    wallet_address,  \* self.wallet_address (the client's default)
    op,              \* the public operation in progress and its arguments
    sync,            \* BountyClient._request: position, counters, result
    async,           \* AsyncBountyClient._request: position, counters, result
    session,         \* self._session: 0 is None, else the index of a session
    sessions,        \* every aiohttp.ClientSession created so far: open or closed
    closing,         \* a close() is suspended in `await self._session.close()`
    scope,           \* whether the client is inside `async with`: "in" or "out"
    inflight_on,     \* the session the HTTP call in flight was issued on
    session_errors,  \* how attempts failed on the session itself, so far
    fetched,         \* SpecList: the Bounty list built from the GET response
    filter,          \* SpecList: the status and tags arguments
    returned,        \* SpecList: what list_bounties returned
    env,             \* SpecMap: the interpreter's time zone and version
    data,            \* SpecMap: the JSON object a request returned
    mapped           \* SpecMap: what the operation made of it, or raised

reqVars  == <<max_retries, retry_delay, wallet_address, op, sync, async>>
sessVars == <<session, sessions, closing, scope, inflight_on, session_errors>>
listVars == <<fetched, filter, returned>>
mapVars  == <<env, data, mapped>>
vars     == <<max_retries, retry_delay, wallet_address, op, sync, async,
              session, sessions, closing, scope, inflight_on, session_errors,
              fetched, filter, returned, env, data, mapped>>

-----------------------------------------------------------------------------
(* Bounds of the model.                                                    *)

\* max_retries ranges over 0 .. MaxRetries
MaxRetries == 3

\* sessions one client creates in a behaviour of SpecSession
MaxSessions == 3

\* bounties in the collection list_bounties fetches
MaxBounties == 2

\* tags of one fetched bounty
MaxBountyTags == 1

\* tags in the tags argument of list_bounties
MaxFilterTags == 2

\* retry_delay, in whole units of time
Delays == {1, 2}

\* Python's None
None == "None"

-----------------------------------------------------------------------------
(* Text.  A string is a sequence of one-character strings, so that         *)
(* str.lower() and the substring test `in` are computed, not assumed.      *)

LowerChar(c) ==
    CASE c = "A" -> "a" [] c = "C" -> "c" [] c = "D" -> "d" [] c = "E" -> "e"
      [] c = "I" -> "i" [] c = "L" -> "l" [] c = "M" -> "m" [] c = "N" -> "n"
      [] c = "O" -> "o" [] c = "T" -> "t" [] c = "F" -> "f" [] c = "U" -> "u"
      [] OTHER -> c

\* str.lower()
Lower(s) == [i \in 1..Len(s) |-> LowerChar(s[i])]

\* needle in hay
Contains(hay, needle) ==
    \E i \in 0..(Len(hay) - Len(needle)) :
        SubSeq(hay, i + 1, i + Len(needle)) = needle

claimed_kw == <<"c", "l", "a", "i", "m", "e", "d">>

TxtClaimed  == <<"i", "s", " ", "c", "l", "a", "i", "m", "e", "d">>
TxtCLAIMED  == <<"C", "L", "A", "I", "M", "E", "D">>
TxtClaim    == <<"c", "l", "a", "i", "m">>
TxtNotFound == <<"N", "o", "t", " ", "f", "o", "u", "n", "d">>
TxtDown     == <<"d", "o", "w", "n">>
TxtEmpty    == <<>>

-----------------------------------------------------------------------------
(* What one attempt can meet: a transport fault, or an HTTP response with  *)
(* a status and a body.  A body either parses as a JSON object (json) with *)
(* optional keys error, claimedBy, claimedAt, or it does not, and then     *)
(* text is the raw body.                                                   *)

Absent == "absent"

Fault ==
    [kind |-> "fault", status |-> 0, json |-> FALSE, has_error |-> FALSE,
     text |-> TxtEmpty, claimedBy |-> Absent, claimedAt |-> -1]

JsonBody(status, has_error, text, by, at) ==
    [kind |-> "http", status |-> status, json |-> TRUE, has_error |-> has_error,
     text |-> text, claimedBy |-> by, claimedAt |-> at]

RawBody(status, text) ==
    [kind |-> "http", status |-> status, json |-> FALSE, has_error |-> FALSE,
     text |-> text, claimedBy |-> Absent, claimedAt |-> -1]

Responses ==
    { Fault,
      JsonBody(200, FALSE, TxtEmpty, "0xABC", 1700),
      RawBody(200, TxtEmpty),
      JsonBody(400, TRUE, TxtClaimed, Absent, -1),
      JsonBody(404, TRUE, TxtNotFound, Absent, -1),
      RawBody(404, TxtNotFound),
      JsonBody(409, TRUE, TxtClaimed, "0xABC", 1700),
      JsonBody(409, TRUE, TxtCLAIMED, Absent, -1),
      JsonBody(409, TRUE, TxtClaim, "0xABC", 1700),
      RawBody(409, TxtClaimed),
      JsonBody(500, TRUE, TxtDown, Absent, -1),
      JsonBody(503, FALSE, TxtEmpty, Absent, -1),
      RawBody(502, TxtDown) }

-----------------------------------------------------------------------------
(* Results of _request.                                                    *)

NoResult ==
    [kind |-> "none", message |-> "", status |-> 0, text |-> TxtEmpty,
     claimed_by |-> "", claimed_at |-> 0, data |-> Fault]

\* return json.loads(...) / return response_data
Returned(resp) ==
    [NoResult EXCEPT !.kind = "return", !.status = resp.status, !.data = resp]

\* class BountyAlreadyClaimedError
BountyAlreadyClaimedError(claimed_by, claimed_at) ==
    [NoResult EXCEPT !.kind = "BountyAlreadyClaimedError",
                     !.message = "Bounty already claimed by",
                     !.claimed_by = claimed_by, !.claimed_at = claimed_at]

\* class BountyBoardError, raised as f"API error {code}: {error}"
ApiError(status, text) ==
    [NoResult EXCEPT !.kind = "BountyBoardError", !.message = "API error",
                     !.status = status, !.text = text]

\* BountyBoardError(f"Request failed: {e}")
RequestFailed ==
    [NoResult EXCEPT !.kind = "BountyBoardError", !.message = "Request failed"]

\* BountyBoardError("Max retries exceeded")
MaxRetriesExceeded ==
    [NoResult EXCEPT !.kind = "BountyBoardError",
                     !.message = "Max retries exceeded"]

\* ValueError("Wallet address required")
WalletRequired ==
    [NoResult EXCEPT !.kind = "ValueError",
                     !.message = "Wallet address required"]

\* dict.get(key, default)
Get(present, value, default) == IF present THEN value ELSE default

-----------------------------------------------------------------------------
(* The retry loop of _request.  A machine is one run of _request:          *)
(*   pc       idle, loop (at the top of an iteration), inflight, done      *)
(*   attempt  the loop variable of `for attempt in range(self.max_retries)`*)
(*   calls    HTTP calls issued so far                                     *)
(*   sleeps   the durations passed to sleep, in order                      *)
(*   seen     the outcome each attempt met, in order                       *)

Idle ==
    [pc |-> "idle", attempt |-> 0, calls |-> 0, sleeps |-> <<>>,
     seen |-> <<>>, result |-> NoResult]

Raise(m, r) == [m EXCEPT !.pc = "done", !.result = r]

\* for attempt in range(self.max_retries): ... else fall out of the loop
LoopHead(m) ==
    IF m.attempt < max_retries THEN [m EXCEPT !.pc = "loop"]
    ELSE Raise(m, MaxRetriesExceeded)

\* a backoff that does not grow: sleep(self.retry_delay)
SleepAndContinue_Flat(m) ==
    LoopHead([m EXCEPT !.sleeps = Append(@, retry_delay), !.attempt = @ + 1])

\* time.sleep(self.retry_delay * (attempt + 1)); continue
SleepAndContinue(m) ==
    LoopHead([m EXCEPT !.sleeps = Append(@, retry_delay * (m.attempt + 1)),
                       !.attempt = @ + 1])

\* the HTTP call of this iteration goes out
Issue(m) == [m EXCEPT !.calls = @ + 1]

\* a fault on the final attempt sleeps and goes round again
ExceptException_Always(m) ==
    IF m.attempt < max_retries THEN SleepAndContinue(m)
    ELSE Raise(m, RequestFailed)

\* except Exception as e: (both variants)
ExceptException(m) ==
    IF m.attempt < max_retries - 1 THEN SleepAndContinue(m)
    ELSE Raise(m, RequestFailed)

\* BountyClient._request, from the answer of urlopen on
SyncHandle(m, resp) ==
    LET n == [m EXCEPT !.seen = Append(@, resp)]
        \* error_data = json.loads(error_body), except: {"error": error_body}
        error == IF resp.json THEN Get(resp.has_error, resp.text, TxtEmpty)
                 ELSE resp.text
    IN  IF resp.kind = "fault" THEN ExceptException(n)
        ELSE IF resp.status < 400 THEN
            \* return json.loads(response.read().decode("utf-8"))
            IF resp.json THEN Raise(n, Returned(resp)) ELSE ExceptException(n)
        ELSE IF resp.status = 409 /\ Contains(Lower(error), claimed_kw) THEN
            Raise(n, BountyAlreadyClaimedError(
                         Get(resp.claimedBy # Absent, resp.claimedBy, "unknown"),
                         Get(resp.claimedAt # -1, resp.claimedAt, 0)))
        ELSE IF m.attempt < max_retries - 1 /\ resp.status >= 500 THEN
            SleepAndContinue(n)
        ELSE Raise(n, ApiError(resp.status, error))

TxtUnknownError == <<"U", "n", "k", "n", "o", "w", "n">>

\* AsyncBountyClient._request, from the answer of session.request on
AsyncHandle(m, resp) ==
    LET n == [m EXCEPT !.seen = Append(@, resp)]
        error_msg == Get(resp.has_error, resp.text, TxtUnknownError)
    IN  IF resp.kind = "fault" THEN ExceptException(n)
        \* response_data = await response.json()
        ELSE IF ~resp.json THEN ExceptException(n)
        ELSE IF resp.status >= 400 THEN
            IF resp.status = 409 /\ Contains(Lower(error_msg), claimed_kw) THEN
                Raise(n, BountyAlreadyClaimedError(
                             Get(resp.claimedBy # Absent, resp.claimedBy, "unknown"),
                             Get(resp.claimedAt # -1, resp.claimedAt, 0)))
            ELSE IF m.attempt < max_retries - 1 /\ resp.status >= 500 THEN
                SleepAndContinue(n)
            ELSE Raise(n, ApiError(resp.status, error_msg))
        ELSE Raise(n, Returned(resp))

\* async def _ensure_session(self)
EnsureSession ==
    IF session = 0
    THEN /\ sessions' = Append(sessions, "open")
         /\ session' = Len(sessions) + 1
    ELSE UNCHANGED <<session, sessions>>

-----------------------------------------------------------------------------
(* JSON values and datetimes, for models.py.                               *)

\* The interpreter: the offset of its local time zone from UTC, in ms, and
\* whether datetime.fromisoformat reads a trailing "Z" (Python 3.11 on;
\* setup.py asks for python_requires >= 3.8).
Envs == [utcoffset : {0, 3600000}, fromisoformat_z : BOOLEAN]

NoEnv == [utcoffset |-> 0, fromisoformat_z |-> FALSE]

\* A JSON value under a key of an object: the key is missing, or its value
\* is null, a string or an integer.
JMissing == [t |-> "missing", s |-> "", n |-> 0]
JNull    == [t |-> "null", s |-> "", n |-> 0]
JStr(x)  == [t |-> "str", s |-> x, n |-> 0]
JInt(k)  == [t |-> "int", s |-> "", n |-> k]

\* Python truthiness of d.get(key)
JTruthy(v) == (v.t = "str" /\ v.s # "") \/ (v.t = "int" /\ v.n # 0)

\* d.get(key, default)
JGet(v, default) == IF v.t = "missing" THEN default ELSE v

\* An ISO-8601 string is the wall-clock time it spells, in ms from
\* 1970-01-01T00:00:00, and its zone part: none ("naive"), "Z", or an
\* explicit offset of off ms; "bad" is a string that is not ISO-8601.
Iso(wall, zone, off) == [t |-> "str", ms |-> wall, zone |-> zone, off |-> off]

\* A time value under a key: missing, null, an integer of epoch
\* milliseconds, or a string
TMissing == [t |-> "missing", ms |-> 0, zone |-> "", off |-> 0]
TNull    == [t |-> "null", ms |-> 0, zone |-> "", off |-> 0]
TInt(ms) == [t |-> "int", ms |-> ms, zone |-> "", off |-> 0]

TTruthy(v) == (v.t = "str") \/ (v.t = "int" /\ v.ms # 0)

\* A datetime: naive (aware is FALSE) or aware with its utcoffset; t may
\* also be "None", or the exception the conversion raised.
DtNone == [t |-> "None", wall |-> 0, aware |-> FALSE, off |-> 0]
DtRaise(exc) == [t |-> exc, wall |-> 0, aware |-> FALSE, off |-> 0]
Datetime(wall, aware, off) ==
    [t |-> "datetime", wall |-> wall, aware |-> aware, off |-> off]

\* datetime.now(): naive local time, whatever the clock says
DtNow == [t |-> "now", wall |-> 0, aware |-> FALSE, off |-> 0]

\* datetime.fromtimestamp(ms / 1000): naive, in the local time zone
fromtimestamp(ms) == Datetime(ms + env.utcoffset, FALSE, 0)

\* datetime.fromisoformat(s)
fromisoformat(s) ==
    CASE s.zone = "naive" -> Datetime(s.ms, FALSE, 0)
      [] s.zone = "offset" -> Datetime(s.ms, TRUE, s.off)
      [] s.zone = "Z" -> IF env.fromisoformat_z THEN Datetime(s.ms, TRUE, 0)
                         ELSE DtRaise("ValueError")
      [] OTHER -> DtRaise("ValueError")

\* s.replace("Z", "+00:00")
ReplaceZ(s) == IF s.zone = "Z" THEN Iso(s.ms, "offset", 0) ELSE s

\* datetime.fromtimestamp(v / 1000) if d.get(key) else None
\* (models.py:98-99), v being the value of d[key]
TimestampOrNone(v) ==
    IF ~TTruthy(v) THEN DtNone
    ELSE IF v.t = "int" THEN fromtimestamp(v.ms)
    ELSE DtRaise("TypeError")

\* datetime.fromtimestamp(d[key] / 1000)
Timestamp(v) ==
    CASE v.t = "missing" -> DtRaise("KeyError")
      [] v.t = "int" -> fromtimestamp(v.ms)
      [] OTHER -> DtRaise("TypeError")

\* deadline, models.py:77-82
ParseDeadline(v) ==
    IF ~TTruthy(v) THEN DtNone
    ELSE IF v.t = "int" THEN fromtimestamp(v.ms)
    ELSE fromisoformat(v)

\* The reward under its key: missing, null, an integer, or a string given
\* as its characters
RMissing == [t |-> "missing", txt |-> <<>>, n |-> 0]
RNull    == [t |-> "null", txt |-> <<>>, n |-> 0]
RInt(k)  == [t |-> "int", txt |-> <<>>, n |-> k]
RStr(txt) == [t |-> "str", txt |-> txt, n |-> 0]

DigitChars == <<"0", "1", "2", "3", "4", "5", "6", "7", "8", "9">>

IsDigit(c) == \E k \in 1..Len(DigitChars) : DigitChars[k] = c

DigitValue(c) == (CHOOSE k \in 1..Len(DigitChars) : DigitChars[k] = c) - 1

\* float(txt) accepts txt: digits with at most one point (the plain decimal
\* notation; signs, exponents, inf and nan are not in the model's inputs)
IsDecimal(txt) ==
    /\ \A i \in 1..Len(txt) : IsDigit(txt[i]) \/ txt[i] = "."
    /\ Cardinality({i \in 1..Len(txt) : txt[i] = "."}) <= 1
    /\ \E i \in 1..Len(txt) : IsDigit(txt[i])

\* int(float(txt)): the digits before the point
TruncDecimal(txt) ==
    LET value[i \in 0..Len(txt)] ==
            IF i = 0 THEN 0
            ELSE IF \E j \in 1..i : txt[j] = "." THEN value[i - 1]
            ELSE value[i - 1] * 10 + DigitValue(txt[i])
    IN  value[Len(txt)]

\* int(float(data.get("reward", 0))): the exception raised ("" if none) and
\* the value
ParseReward(v) ==
    CASE v.t = "missing" -> [exc |-> "", n |-> 0]
      [] v.t = "int" -> [exc |-> "", n |-> v.n]
      [] v.t = "null" -> [exc |-> "TypeError", n |-> 0]
      [] OTHER -> IF IsDecimal(v.txt) THEN [exc |-> "", n |-> TruncDecimal(v.txt)]
                  ELSE [exc |-> "ValueError", n |-> 0]

\* The payment under its key: missing, null, or an object with some of the
\* keys chain, txHash, processedAt
PMissing == [t |-> "missing", chain |-> JMissing, txHash |-> JMissing,
             processedAt |-> TMissing]
PNull == [PMissing EXCEPT !.t = "null"]
PObject(chain, txHash, processedAt) ==
    [t |-> "object", chain |-> chain, txHash |-> txHash,
     processedAt |-> processedAt]

\* truthiness of data.get("payment"): a dict with at least one key
PTruthy(p) ==
    /\ p.t = "object"
    /\ \/ p.chain.t # "missing"
       \/ p.txHash.t # "missing"
       \/ p.processedAt.t # "missing"

\* Payment, None, or the exception raised
NoPayment == [t |-> "None", chain |-> JMissing, tx_hash |-> JMissing,
              processed_at |-> DtNone]
Payment(chain, tx_hash, processed_at) ==
    [t |-> IF processed_at.t \in {"datetime", "now"} THEN "Payment"
           ELSE processed_at.t,
     chain |-> chain, tx_hash |-> tx_hash, processed_at |-> processed_at]

\* the mapper with the chain test left out
ParsePayment_AnyObject(p) ==
    IF PTruthy(p)
    THEN Payment(JGet(p.chain, JStr("base")), JGet(p.txHash, JStr("")),
                 IF TTruthy(p.processedAt)
                 THEN (IF p.processedAt.t = "str"
                       THEN fromisoformat(ReplaceZ(p.processedAt))
                       ELSE DtRaise("AttributeError"))
                 ELSE DtNow)
    ELSE NoPayment

\* payment, models.py:63-75
ParsePayment(p) ==
    IF PTruthy(p) /\ JTruthy(p.chain)
    THEN Payment(JGet(p.chain, JStr("base")), JGet(p.txHash, JStr("")),
                 IF TTruthy(p.processedAt)
                 THEN (IF p.processedAt.t = "str"
                       THEN fromisoformat(ReplaceZ(p.processedAt))
                       ELSE DtRaise("AttributeError"))
                 ELSE DtNow)
    ELSE NoPayment

\* One element of submissions
SubmissionJson(id, content, submittedAt) ==
    [id |-> id, content |-> content, submittedAt |-> submittedAt]

\* The submissions under their key: missing or a list
SMissing == [t |-> "missing", items |-> <<>>]
SList(items) == [t |-> "list", items |-> items]

\* Submission(id=s["id"], content=s["content"], ...,
\*            submitted_at=datetime.fromtimestamp(s["submittedAt"] / 1000)):
\* the exception raised, "" if none
SubmissionExc(s) ==
    IF s.id.t = "missing" \/ s.content.t = "missing" THEN "KeyError"
    ELSE IF Timestamp(s.submittedAt).t # "datetime"
         THEN Timestamp(s.submittedAt).t
    ELSE ""

\* submissions, models.py:53-61: the exception of the first element that
\* raises one, "" if none
SubmissionsExc(v) ==
    LET bad == { i \in 1..Len(v.items) : SubmissionExc(v.items[i]) # "" }
    IN  IF bad = {} THEN ""
        ELSE SubmissionExc(v.items[CHOOSE i \in bad : \A j \in bad : i <= j])

\* The JSON object of a bounty, as far as the mapper's conversions go (the
\* other keys are copied with d.get and a default)
BountyJson(id, status, reward, deadline, payment, submissions, by, at) ==
    [id |-> id, status |-> status, reward |-> reward, deadline |-> deadline,
     payment |-> payment, submissions |-> submissions,
     claimedBy |-> by, claimedAt |-> at]

\* {}
NoData ==
    BountyJson(JMissing, JMissing, RMissing, TMissing, PMissing, SMissing,
               JMissing, TMissing)

\* What the operation name returns or raises: kind is "Bounty",
\* "ClaimResult", "SubmitResult", "Stats" or the name of the exception
NoMapped ==
    [name |-> "none", kind |-> "none", id |-> JMissing, status |-> JMissing, reward |-> 0,
     deadline |-> DtNone, payment |-> NoPayment, claimed_by |-> JMissing,
     claimed_at |-> DtNone, submission_id |-> JMissing]

RaiseFrom(exc) == [NoMapped EXCEPT !.kind = exc]

\* Bounty.from_dict(data), models.py:50-101
from_dict(d) ==
    LET submissions == SubmissionsExc(d.submissions)
        payment     == ParsePayment(d.payment)
        deadline    == ParseDeadline(d.deadline)
        reward      == ParseReward(d.reward)
        claimed_at  == TimestampOrNone(d.claimedAt)
    IN  IF submissions # "" THEN RaiseFrom(submissions)
        ELSE IF payment.t \notin {"None", "Payment"} THEN RaiseFrom(payment.t)
        ELSE IF deadline.t \notin {"None", "datetime"}
             THEN RaiseFrom(deadline.t)
        ELSE IF reward.exc # "" THEN RaiseFrom(reward.exc)
        ELSE IF claimed_at.t \notin {"None", "datetime"}
             THEN RaiseFrom(claimed_at.t)
        ELSE [NoMapped EXCEPT
                 !.kind = "Bounty",
                 !.id = JGet(d.id, JStr("")),
                 !.status = JGet(d.status, JStr("unknown")),
                 !.reward = reward.n,
                 !.deadline = deadline,
                 !.payment = payment,
                 !.claimed_by = JGet(d.claimedBy, JNull),
                 !.claimed_at = claimed_at]

\* ClaimResult(id=data["id"], ...), client.py:172-177
ClaimResult(d) ==
    IF d.id.t = "missing" \/ d.status.t = "missing" THEN RaiseFrom("KeyError")
    ELSE IF Timestamp(d.claimedAt).t # "datetime"
         THEN RaiseFrom(Timestamp(d.claimedAt).t)
    ELSE IF d.claimedBy.t = "missing" THEN RaiseFrom("KeyError")
    ELSE [NoMapped EXCEPT !.kind = "ClaimResult", !.id = d.id,
                          !.status = d.status,
                          !.claimed_at = Timestamp(d.claimedAt),
                          !.claimed_by = d.claimedBy]

\* SubmitResult(id=data["id"], ...), client.py:211-215
SubmitResult(d) ==
    IF d.id.t = "missing" \/ d.status.t = "missing" THEN RaiseFrom("KeyError")
    ELSE IF d.submissions.t = "missing" THEN RaiseFrom("KeyError")
    ELSE IF d.submissions.items = <<>> THEN RaiseFrom("IndexError")
    ELSE LET last == d.submissions.items[Len(d.submissions.items)]
         IN  IF last.id.t = "missing" THEN RaiseFrom("KeyError")
             ELSE [NoMapped EXCEPT !.kind = "SubmitResult", !.id = d.id,
                                   !.status = d.status,
                                   !.submission_id = last.id]

\* Stats.from_dict(data), models.py:114-123: every key is read with
\* d.get and a default
Stats_from_dict(d) == [NoMapped EXCEPT !.kind = "Stats"]

-----------------------------------------------------------------------------
(* The public operations.                                                  *)

Wallets == {None, "", "0xABC", "0xDEF"}
Proofs  == {None, "", "https://x"}

\* Python truthiness of an Optional[str]
Truthy(x) == x # None /\ x # ""

\* a or b
Or(a, b) == IF Truthy(a) THEN a ELSE b

\* data=None: no body is sent
NoBody == <<>>

NoOp ==
    [name |-> "none", wallet_arg |-> None, proof |-> None, method |-> "",
     body |-> NoBody]

\* the client's default first: self.wallet_address or wallet_address
ResolveAddress_DefaultFirst(wallet_arg) == Or(wallet_address, wallet_arg)

\* address = wallet_address or self.wallet_address
ResolveAddress(wallet_arg) == Or(wallet_arg, wallet_address)

\* claim_bounty: {"address": address}
ClaimBody(wallet_arg) == [address |-> ResolveAddress(wallet_arg)]

\* the payload with the proof always in it, None included
SubmitBody_Null(wallet_arg, proof) ==
    [address |-> ResolveAddress(wallet_arg), submission |-> "done",
     proof |-> proof]

\* submit_bounty: payload, with proof only `if proof:`
SubmitBody(wallet_arg, proof) ==
    IF Truthy(proof)
    THEN [address |-> ResolveAddress(wallet_arg), submission |-> "done",
          proof |-> proof]
    ELSE [address |-> ResolveAddress(wallet_arg), submission |-> "done"]

\* self._request(method, path, data) is entered by both clients
EnterRequest(name, wallet_arg, proof, method, body) ==
    /\ op' = [name |-> name, wallet_arg |-> wallet_arg, proof |-> proof,
             method |-> method, body |-> body]
    /\ sync' = LoopHead(sync)
    /\ EnsureSession
    /\ async' = LoopHead(async)

\* raise ValueError("Wallet address required"), before _request
RaiseValueError(name, wallet_arg, proof) ==
    /\ op' = [name |-> name, wallet_arg |-> wallet_arg, proof |-> proof,
             method |-> "", body |-> NoBody]
    /\ sync' = Raise(sync, WalletRequired)
    /\ async' = Raise(async, WalletRequired)
    /\ UNCHANGED <<session, sessions>>

\* list_bounties, get_bounty, get_stats (discover is list_bounties)
CallGet(name) ==
    /\ sync.pc = "idle" /\ async.pc = "idle"
    /\ EnterRequest(name, None, None, "GET", NoBody)
    /\ UNCHANGED <<max_retries, retry_delay, wallet_address, closing, scope,
                   inflight_on, session_errors, listVars, mapVars>>

\* claim_bounty without the check of the address
CallClaimBounty_Unchecked(wallet_arg) ==
    /\ sync.pc = "idle" /\ async.pc = "idle"
    /\ EnterRequest("claim_bounty", wallet_arg, None, "POST",
                    ClaimBody(wallet_arg))
    /\ UNCHANGED <<max_retries, retry_delay, wallet_address, closing, scope,
                   inflight_on, session_errors, listVars, mapVars>>

CallClaimBounty(wallet_arg) ==
    /\ sync.pc = "idle" /\ async.pc = "idle"
    /\ IF ~Truthy(ResolveAddress(wallet_arg))
       THEN RaiseValueError("claim_bounty", wallet_arg, None)
       ELSE EnterRequest("claim_bounty", wallet_arg, None, "POST",
                         ClaimBody(wallet_arg))
    /\ UNCHANGED <<max_retries, retry_delay, wallet_address, closing, scope,
                   inflight_on, session_errors, listVars, mapVars>>

CallSubmitBounty(wallet_arg, proof) ==
    /\ sync.pc = "idle" /\ async.pc = "idle"
    /\ IF ~Truthy(ResolveAddress(wallet_arg))
       THEN RaiseValueError("submit_bounty", wallet_arg, proof)
       ELSE EnterRequest("submit_bounty", wallet_arg, proof, "POST",
                         SubmitBody(wallet_arg, proof))
    /\ UNCHANGED <<max_retries, retry_delay, wallet_address, closing, scope,
                   inflight_on, session_errors, listVars, mapVars>>

\* One iteration of the retry loop in each client still running: the HTTP
\* call goes out, meets resp, and the code runs to the top of the next
\* iteration or to the end of _request.
Attempt(resp) ==
    /\ sync.pc = "loop" \/ async.pc = "loop"
    /\ sync' = IF sync.pc = "loop" THEN SyncHandle(Issue(sync), resp) ELSE sync
    /\ async' = IF async.pc = "loop" THEN AsyncHandle(Issue(async), resp)
                ELSE async
    /\ UNCHANGED <<max_retries, retry_delay, wallet_address, op,
                   sessVars, listVars, mapVars>>

GetOps == {"list_bounties", "get_bounty", "get_stats"}

\* the arguments of a list_bounties call: status is None or a string; tags
\* is None (has_tags is FALSE) or a list
NoFilter ==
    [name |-> "none", status |-> None, has_tags |-> FALSE, tags |-> <<>>]

Init ==
    /\ max_retries \in 0..MaxRetries
    /\ retry_delay \in Delays
    /\ wallet_address \in Wallets
    /\ op = NoOp
    /\ sync = Idle
    /\ async = Idle
    /\ session = 0
    /\ sessions = <<>>
    /\ closing = FALSE
    /\ scope = "out"
    /\ inflight_on = 0
    /\ session_errors = {}
    /\ fetched = <<>>
    /\ filter = NoFilter
    /\ returned = <<>>
    /\ env = NoEnv
    /\ data = NoData
    /\ mapped = NoMapped

Next ==
    \/ \E name \in GetOps : CallGet(name)
    \/ \E w \in Wallets : CallClaimBounty(w)
    \/ \E w \in Wallets, p \in Proofs : CallSubmitBounty(w, p)
    \/ \E resp \in Responses : Attempt(resp)

Spec == Init /\ [][Next]_vars

-----------------------------------------------------------------------------
(* SpecSession: one AsyncBountyClient whose session is entered, exited and *)
(* closed while a coroutine runs _request.  Coroutines interleave only at  *)
(* an await that suspends: the HTTP call with the read of its body, the    *)
(* backoff sleep, and session.close().                                     *)

SessionResponses ==
    { Fault,
      JsonBody(200, FALSE, TxtEmpty, "0xABC", 1700),
      JsonBody(404, TRUE, TxtNotFound, Absent, -1),
      JsonBody(500, TRUE, TxtDown, Absent, -1) }

\* aiohttp.ClientSession.closed
Closed(i) == sessions[i] = "closed"

\* await self._session.close(): closing a closed session does nothing
CloseSession(i) == [sessions EXCEPT ![i] = "closed"]

\* async def __aenter__(self)
AEnter ==
    /\ scope = "out"
    /\ Len(sessions) < MaxSessions
    /\ sessions' = Append(sessions, "open")
    /\ session' = Len(sessions) + 1
    /\ scope' = "in"
    /\ UNCHANGED <<reqVars, closing, inflight_on, session_errors, listVars, mapVars>>

\* async def __aexit__(self, exc_type, exc_val, exc_tb)
AExit ==
    /\ scope = "in"
    /\ sessions' = IF session # 0 THEN CloseSession(session) ELSE sessions
    /\ scope' = "out"
    /\ UNCHANGED <<reqVars, session, closing, inflight_on, session_errors,
                   listVars, mapVars>>

\* async def close(self), up to where `await self._session.close()` returns
CloseBegin ==
    /\ ~closing
    /\ session # 0
    /\ sessions' = CloseSession(session)
    /\ closing' = TRUE
    /\ UNCHANGED <<reqVars, session, scope, inflight_on, session_errors,
                   listVars, mapVars>>

\* async def close(self): self._session = None
CloseEnd ==
    /\ closing
    /\ session' = 0
    /\ closing' = FALSE
    /\ UNCHANGED <<reqVars, sessions, scope, inflight_on, session_errors,
                   listVars, mapVars>>

\* self._session.request(...) at the top of an iteration: on an absent
\* session it raises AttributeError, on a closed one RuntimeError, and else
\* the HTTP call goes out and the coroutine waits for the answer.
SessionRequest(m, s, ss) ==
    IF s = 0 \/ ss[s] = "closed" THEN ExceptException(m)
    ELSE [Issue(m) EXCEPT !.pc = "inflight"]

SessionError(s, ss) ==
    IF s = 0 THEN {"absent"} ELSE IF ss[s] = "closed" THEN {"closed"} ELSE {}

\* _request is called: _ensure_session, then the loop up to its first await
StartRequest ==
    /\ async.pc = "idle"
    /\ session # 0 \/ Len(sessions) < MaxSessions
    /\ EnsureSession
    /\ LET m == LoopHead(async)
       IN  /\ async' = IF m.pc = "loop" THEN SessionRequest(m, session', sessions')
                       ELSE m
           /\ session_errors' = session_errors \cup
                  (IF m.pc = "loop" THEN SessionError(session', sessions') ELSE {})
    /\ inflight_on' = session'
    /\ UNCHANGED <<max_retries, retry_delay, wallet_address, op, sync,
                   closing, scope, listVars, mapVars>>

\* the backoff sleep ends and the next iteration calls session.request
WakeAndRequest ==
    /\ async.pc = "loop"
    /\ async' = SessionRequest(async, session, sessions)
    /\ session_errors' = session_errors \cup SessionError(session, sessions)
    /\ inflight_on' = session
    /\ UNCHANGED <<max_retries, retry_delay, wallet_address, op, sync,
                   session, sessions, closing, scope, listVars, mapVars>>

\* the HTTP call in flight is answered on a session that is still open
Respond(resp) ==
    /\ async.pc = "inflight"
    /\ ~Closed(inflight_on)
    /\ async' = AsyncHandle(async, resp)
    /\ UNCHANGED <<max_retries, retry_delay, wallet_address, op, sync,
                   sessVars, listVars, mapVars>>

\* the session was closed under the HTTP call in flight: its connection is
\* gone and the call raises, or the answer had already arrived
RespondClosed(resp) ==
    /\ async.pc = "inflight"
    /\ Closed(inflight_on)
    /\ \/ /\ async' = AsyncHandle(async, resp)
          /\ UNCHANGED session_errors
       \/ /\ async' = ExceptException(async)
          /\ session_errors' = session_errors \cup {"torn"}
    /\ UNCHANGED <<max_retries, retry_delay, wallet_address, op, sync,
                   session, sessions, closing, scope, inflight_on, listVars, mapVars>>

\* _request has ended and the caller goes on to its next operation
NextOperation ==
    /\ async.pc = "done"
    /\ async' = Idle
    /\ inflight_on' = 0
    /\ UNCHANGED <<max_retries, retry_delay, wallet_address, op, sync,
                   session, sessions, closing, scope, session_errors, listVars, mapVars>>

InitSession ==
    /\ Init
    /\ wallet_address = None

NextSession ==
    \/ AEnter
    \/ AExit
    \/ CloseBegin
    \/ CloseEnd
    \/ StartRequest
    \/ WakeAndRequest
    \/ \E resp \in SessionResponses : Respond(resp)
    \/ \E resp \in SessionResponses : RespondClosed(resp)
    \/ NextOperation

SpecSession == InitSession /\ [][NextSession]_vars

-----------------------------------------------------------------------------
(* SpecList: one call of list_bounties or discover on a fetched            *)
(* collection.                                                             *)

TagNames == {"a", "b"}
Statuses == {"open", "claimed"}

\* the sequences over S of length at most n
SeqsUpTo(S, n) == UNION {[1..k -> S] : k \in 0..n}

\* Bounty objects in server order; the id is the place in that order
Collections ==
    { [i \in 1..Len(c) |-> [id |-> i, status |-> c[i][1], tags |-> c[i][2]]] :
        c \in SeqsUpTo(Statuses \X SeqsUpTo(TagNames, MaxBountyTags), MaxBounties) }

\* t in b.tags
In(t, list) == \E j \in 1..Len(list) : list[j] = t

\* all(t in b.tags for t in tags)
AnyTagIn_All(b, tags) == \A i \in 1..Len(tags) : In(tags[i], b.tags)

\* any(t in b.tags for t in tags)
AnyTagIn(b, tags) == \E i \in 1..Len(tags) : In(tags[i], b.tags)

\* [b for b in bounties if b.status == status]
FilterStatus(bounties, status) ==
    LET Test(b) == b.status = status IN SelectSeq(bounties, Test)

\* [b for b in bounties if any(t in b.tags for t in tags)]
FilterTags(bounties, tags) ==
    LET Test(b) == AnyTagIn(b, tags) IN SelectSeq(bounties, Test)

\* list_bounties(status, tags), after the GET has built the Bounty list
list_bounties(bounties, status, has_tags, tags) ==
    LET by_status == IF Truthy(status) THEN FilterStatus(bounties, status)
                     ELSE bounties
    IN  IF has_tags /\ tags # <<>> THEN FilterTags(by_status, tags)
        ELSE by_status

CallListBounties(status, has_tags, tags) ==
    /\ filter.name = "none"
    /\ filter' = [name |-> "list_bounties", status |-> status,
                  has_tags |-> has_tags, tags |-> tags]
    /\ returned' = list_bounties(fetched, status, has_tags, tags)
    /\ UNCHANGED <<reqVars, sessVars, fetched, mapVars>>

\* discover(tags): self.list_bounties(status="open", tags=tags)
CallDiscover(has_tags, tags) ==
    /\ filter.name = "none"
    /\ filter' = [name |-> "discover", status |-> "open",
                  has_tags |-> has_tags, tags |-> tags]
    /\ returned' = list_bounties(fetched, "open", has_tags, tags)
    /\ UNCHANGED <<reqVars, sessVars, fetched, mapVars>>

TagArgs ==
    {<<FALSE, <<>> >>} \cup
    {<<TRUE, t>> : t \in SeqsUpTo(TagNames, MaxFilterTags)}

InitList ==
    /\ max_retries = 3
    /\ retry_delay = 1
    /\ wallet_address = None
    /\ op = NoOp
    /\ sync = Idle
    /\ async = Idle
    /\ session = 0
    /\ sessions = <<>>
    /\ closing = FALSE
    /\ scope = "out"
    /\ inflight_on = 0
    /\ session_errors = {}
    /\ fetched \in Collections
    /\ filter = NoFilter
    /\ returned = <<>>
    /\ env = NoEnv
    /\ data = NoData
    /\ mapped = NoMapped

NextList ==
    \/ \E status \in {None, ""} \cup Statuses, a \in TagArgs :
           CallListBounties(status, a[1], a[2])
    \/ \E a \in TagArgs : CallDiscover(a[1], a[2])

SpecList == InitList /\ [][NextList]_vars

-----------------------------------------------------------------------------
(* SpecMap: the JSON object of a success response, mapped by the           *)
(* operation that asked for it.                                            *)

IdJsons == {JMissing, JStr("b1")}

StatusJsons ==
    {JMissing, JNull, JStr("open"), JStr("completed"), JStr("expired")}

RewardJsons ==
    {RMissing, RNull, RInt(5), RStr(<<"1", "2", ".", "5">>),
     RStr(<<"a", "b", "c">>)}

\* one hour after the epoch, as epoch milliseconds and as ISO-8601 strings:
\* "1970-01-01T01:00:00", "...T01:00:00Z", "...T01:00:00+00:00" and
\* "...T02:00:00+01:00"; and 0, and a string that is no date
DeadlineJsons ==
    {TMissing, TNull, TInt(0), TInt(3600000),
     Iso(3600000, "naive", 0), Iso(3600000, "Z", 0),
     Iso(3600000, "offset", 0), Iso(7200000, "offset", 3600000),
     Iso(0, "bad", 0)}

PaymentJsons ==
    {PMissing, PNull,
     PObject(JMissing, JMissing, TMissing),
     PObject(JMissing, JStr("0xT"), TMissing),
     PObject(JNull, JStr("0xT"), TMissing),
     PObject(JStr(""), JStr("0xT"), Iso(0, "Z", 0)),
     PObject(JStr("base"), JMissing, TMissing),
     PObject(JStr("base"), JStr("0xT"), Iso(0, "Z", 0))}

SubmissionsJsons ==
    {SMissing, SList(<<>>),
     SList(<<SubmissionJson(JStr("s1"), JStr("done"), TInt(1000))>>),
     SList(<<SubmissionJson(JStr("s1"), JStr("done"), TInt(1000)),
             SubmissionJson(JMissing, JStr("done"), TInt(2000))>>)}

ClaimedByJsons == {JMissing, JStr("0xABC")}

ClaimedAtJsons == {TMissing, TInt(1000)}

\* the objects GET /bounties/{id} answers with
BountyJsons ==
    { BountyJson(i, s, r, d, p, ss, by, at) :
        i \in IdJsons, s \in StatusJsons, r \in RewardJsons,
        d \in DeadlineJsons, p \in PaymentJsons, ss \in SubmissionsJsons,
        by \in ClaimedByJsons, at \in ClaimedAtJsons }

\* the objects POST .../claim and POST .../submit answer with
ResultJsons ==
    { BountyJson(i, s, RMissing, TMissing, PMissing, ss, by, at) :
        i \in IdJsons, s \in StatusJsons, ss \in SubmissionsJsons,
        by \in ClaimedByJsons, at \in ClaimedAtJsons }

\* one operation per behaviour: its request returned the object json
Map(name, json, result) ==
    /\ data' = json
    /\ mapped' = [result EXCEPT !.name = name]
    /\ UNCHANGED <<reqVars, sessVars, listVars, env>>

\* get_bounty: return Bounty.from_dict(data); list_bounties does the same
\* to every element of the list
MapGetBounty ==
    /\ mapped.kind = "none"
    /\ \E json \in BountyJsons : Map("get_bounty", json, from_dict(json))

\* claim_bounty, after _request
MapClaimBounty ==
    /\ mapped.kind = "none"
    /\ \E json \in ResultJsons : Map("claim_bounty", json, ClaimResult(json))

\* submit_bounty, after _request
MapSubmitBounty ==
    /\ mapped.kind = "none"
    /\ \E json \in ResultJsons : Map("submit_bounty", json, SubmitResult(json))

\* get_stats
MapGetStats ==
    /\ mapped.kind = "none"
    /\ \E json \in ResultJsons : Map("get_stats", json, Stats_from_dict(json))

InitMap ==
    /\ max_retries = 3
    /\ retry_delay = 1
    /\ wallet_address = None
    /\ op = NoOp
    /\ sync = Idle
    /\ async = Idle
    /\ session = 0
    /\ sessions = <<>>
    /\ closing = FALSE
    /\ scope = "out"
    /\ inflight_on = 0
    /\ session_errors = {}
    /\ fetched = <<>>
    /\ filter = NoFilter
    /\ returned = <<>>
    /\ env \in Envs
    /\ data = NoData
    /\ mapped = NoMapped

NextMap ==
    \/ MapGetBounty
    \/ MapClaimBounty
    \/ MapSubmitBounty
    \/ MapGetStats

SpecMap == InitMap /\ [][NextMap]_vars

-----------------------------------------------------------------------------
(* Properties of _request and of the public operations, under Spec.        *)

\* The error text of a response: the error key of a JSON body, and the raw
\* text of a body that is not JSON (wrapped as {error: <text>}).
ErrorText(resp) ==
    IF resp.json THEN (IF resp.has_error THEN resp.text ELSE TxtEmpty)
    ELSE resp.text

Is409Claimed(resp) ==
    /\ resp.kind = "http"
    /\ resp.status = 409
    /\ Contains(Lower(ErrorText(resp)), claimed_kw)

Is5xx(resp) == resp.kind = "http" /\ resp.status >= 500

IsSuccess(resp) == resp.kind = "http" /\ resp.status < 400

\* sleeps of retry_delay*1, ..., retry_delay*k
Backoffs(k) == [i \in 1..k |-> retry_delay * i]

\* Attempt i was the last one of the run m, which ended without sleeping
EndedAt(m, i) ==
    /\ m.pc = "done"
    /\ Len(m.seen) = i
    /\ m.calls = i
    /\ Len(m.sleeps) = i - 1

\* C1: in both clients, at every attempt index, a 409 response whose error
\* text contains "claimed" in any letter case ends the call at once with
\* BountyAlreadyClaimedError carrying the response's claimedBy and claimedAt;
\* no HTTP call and no sleep follows it.
C1_Claimed409EndsCall ==
    \A m \in {sync, async} : \A i \in 1..Len(m.seen) :
        Is409Claimed(m.seen[i]) =>
            /\ EndedAt(m, i)
            /\ m.result.kind = "BountyAlreadyClaimedError"
            /\ m.seen[i].claimedBy # Absent =>
                   m.result.claimed_by = m.seen[i].claimedBy
            /\ m.seen[i].claimedAt # -1 =>
                   m.result.claimed_at = m.seen[i].claimedAt

C3_AttemptsBoundedAndTransient ==
    \A m \in {sync, async} :
        /\ m.calls <= max_retries
        /\ \A i \in 1..(m.calls - 1) :
               m.seen[i].kind = "fault" \/ Is5xx(m.seen[i])

\* C4: in both clients, a response with status 400..499 that is not the
\* 409-claimed case ends the call after that attempt with a BountyBoardError
\* embedding the status: no retry and no sleep follows.
C4_ClientErrorNotRetried ==
    \A m \in {sync, async} : \A i \in 1..Len(m.seen) :
        ( /\ m.seen[i].kind = "http"
          /\ m.seen[i].status \in 400..499
          /\ ~Is409Claimed(m.seen[i]) ) =>
            /\ EndedAt(m, i)
            /\ m.result.kind = "BountyBoardError"
            /\ m.result.message = "API error"
            /\ m.result.status = m.seen[i].status

\* C5: in both clients, an attempt whose response body is not JSON is
\* decided by the status alone, as for a body {error: <raw text>}: a success
\* status returns, a 4xx status ends the call with the error of that status,
\* and a status >= 500 is retried or reported as that status, never as a
\* failed request.
C5_ParseFailureDecidedByStatus ==
    \A m \in {sync, async} : \A i \in 1..Len(m.seen) :
        (m.seen[i].kind = "http" /\ ~m.seen[i].json) =>
            /\ IsSuccess(m.seen[i]) =>
                   EndedAt(m, i) /\ m.result.kind = "return"
            /\ m.seen[i].status \in 400..499 =>
                   /\ EndedAt(m, i)
                   /\ IF Is409Claimed(m.seen[i])
                      THEN m.result.kind = "BountyAlreadyClaimedError"
                      ELSE m.result = ApiError(m.seen[i].status, m.seen[i].text)
            /\ (Is5xx(m.seen[i]) /\ i = Len(m.seen) /\ m.pc = "done") =>
                   m.result = ApiError(m.seen[i].status, m.seen[i].text)

\* An address that is not available: None, or the empty string
Missing(x) == x = None \/ x = ""

\* C6: claim_bounty and submit_bounty, called when neither the wallet_address
\* argument nor the client's default is available, fail with ValueError
\* before any network call: no HTTP call, no sleep, no session.
C6_NoAddressFailsBeforeNetwork ==
    ( /\ op.name \in {"claim_bounty", "submit_bounty"}
      /\ Missing(op.wallet_arg)
      /\ Missing(wallet_address) ) =>
        /\ \A m \in {sync, async} :
               /\ m.pc = "done"
               /\ m.result.kind = "ValueError"
               /\ m.calls = 0
               /\ m.sleeps = <<>>
        /\ session = 0
        /\ sessions = <<>>

C6_Witness ==
    /\ op.name = "claim_bounty"
    /\ op.wallet_arg = None
    /\ wallet_address = ""
    /\ async.result = WalletRequired
    /\ sync.result = WalletRequired

\* C9: the two clients, run with the same max_retries and retry_delay against
\* the same sequence of per-attempt outcomes, end with the same number of
\* HTTP calls, the same sleeps and the same kind of result.
C9_SyncAsyncEquivalent ==
    (sync.pc = "done" /\ async.pc = "done") =>
        /\ sync.calls = async.calls
        /\ sync.sleeps = async.sleeps
        /\ sync.result.kind = async.result.kind

-----------------------------------------------------------------------------
(* Properties of the session life cycle, under SpecSession.                *)

\* C7: when _request starts with max_retries >= 1 and no close() in
\* progress, its first HTTP call goes out on an open session, whatever enter,
\* exit, close and request calls came before: a released session is replaced
\* by a fresh one.
C7_RequestStartsOnOpenSession ==
    [][ (async.pc = "idle" /\ async'.pc # "idle" /\ ~closing /\ max_retries >= 1)
            => /\ async'.pc = "inflight"
               /\ inflight_on' # 0
               /\ sessions'[inflight_on'] = "open" ]_vars

\* C8: a request that is under way, in flight or asleep between two
\* attempts, never has an attempt fail because the session was closed or
\* set to None under it.
C8_ReleaseDoesNotBreakRequest ==
    [][ (async.pc \in {"inflight", "loop"})
            => (session_errors' = session_errors) ]_vars

-----------------------------------------------------------------------------
(* Properties of list_bounties, under SpecList.                            *)

\* the places of the fetched bounties that share a tag with T
Matching(T) ==
    { i \in 1..Len(fetched) :
        \E t \in {T[k] : k \in 1..Len(T)} :
            t \in {fetched[i].tags[k] : k \in 1..Len(fetched[i].tags)} }

\* returned holds exactly the fetched bounties at the places P, in order
ReturnedExactly(P) ==
    /\ {returned[j].id : j \in 1..Len(returned)} = P
    /\ \A j \in 1..Len(returned) : returned[j] = fetched[returned[j].id]
    /\ \A j, k \in 1..Len(returned) : j < k => returned[j].id < returned[k].id

TagsOnly == filter.name = "list_bounties" /\ filter.status = None /\ filter.has_tags

\* C10 as stated: list_bounties with a tags list T and no status returns
\* exactly the fetched bounties that share a tag with T, in server order,
\* for every supplied T.
C10_AnyMatchEveryT == TagsOnly => ReturnedExactly(Matching(filter.tags))

\* C10 as amended: the same for every non-empty T; with an empty T the whole
\* fetched collection is returned unchanged.
C10_AnyMatchNonEmptyT ==
    TagsOnly =>
        IF filter.tags # <<>> THEN ReturnedExactly(Matching(filter.tags))
        ELSE returned = fetched

C10_Witness ==
    /\ TagsOnly
    /\ filter.tags = <<"b", "a">>
    /\ Len(fetched) = 2
    /\ fetched[1].tags = <<>>
    /\ fetched[2].tags = <<"a">>
    /\ returned = <<fetched[2]>>

-----------------------------------------------------------------------------
(* Properties of the request bodies, under Spec.                           *)

\* submit_bounty got past the address check and both clients have sent its
\* body in an HTTP call
SubmitSent ==
    /\ op.name = "submit_bounty"
    /\ op.method = "POST"
    /\ sync.calls >= 1
    /\ async.calls >= 1

\* C11 as stated: the body of submit_bounty has the key proof if and only if
\* the caller passed a proof value; with no proof its keys are exactly
\* address and submission.
C11_ProofKeyIffProvided ==
    SubmitSent =>
        /\ ("proof" \in DOMAIN op.body) <=> (op.proof # None)
        /\ (op.proof = None) => (DOMAIN op.body = {"address", "submission"})

\* C11 as amended: the body has the key proof, with the caller's value, if
\* and only if the caller passed a non-empty proof; with no proof or an empty
\* one its keys are exactly address and submission.
C11_ProofKeyIffNonEmpty ==
    SubmitSent =>
        IF op.proof # None /\ op.proof # ""
        THEN /\ DOMAIN op.body = {"address", "submission", "proof"}
             /\ op.body.proof = op.proof
        ELSE DOMAIN op.body = {"address", "submission"}

C11_Witness ==
    /\ SubmitSent
    /\ op.proof = None
    /\ op.wallet_arg = "0xDEF"
    /\ DOMAIN op.body = {"address", "submission"}
    /\ sync.result.kind = "return"

\* claim_bounty or submit_bounty got past the address check and both clients
\* have sent its body in an HTTP call
AddressSent ==
    /\ op.name \in {"claim_bounty", "submit_bounty"}
    /\ op.method = "POST"
    /\ sync.calls >= 1
    /\ async.calls >= 1

\* C17 as stated: the address of the body of claim_bounty and submit_bounty
\* is the wallet_address argument whenever one was passed and the client's
\* default only when none was passed, and no step changes the default.
C17_ExplicitArgumentWins ==
    [][ /\ wallet_address' = wallet_address
        /\ AddressSent' =>
               op'.body.address = IF op'.wallet_arg # None THEN op'.wallet_arg
                                  ELSE wallet_address ]_vars

\* C17 as amended: the address is the wallet_address argument whenever a
\* non-empty one was passed, and the client's default when the argument is
\* None or the empty string; no step changes the default.
C17_NonEmptyArgumentWins ==
    [][ /\ wallet_address' = wallet_address
        /\ AddressSent' =>
               op'.body.address =
                   IF op'.wallet_arg # None /\ op'.wallet_arg # ""
                   THEN op'.wallet_arg
                   ELSE wallet_address ]_vars

\* an explicit argument that differs from the configured default
C17_Witness ==
    /\ AddressSent
    /\ op.name = "claim_bounty"
    /\ op.wallet_arg = "0xABC"
    /\ wallet_address = "0xDEF"
    /\ op.body = [address |-> "0xABC"]

-----------------------------------------------------------------------------
(* Properties of exhausted retries, under Spec.                            *)

\* the run m is over and every one of its attempts ended in a status >= 500
\* response or in a transport fault
AllTransient(m) ==
    /\ m.pc = "done"
    /\ Len(m.seen) >= 1
    /\ \A i \in 1..Len(m.seen) : m.seen[i].kind = "fault" \/ Is5xx(m.seen[i])

\* C16: in both clients with max_retries >= 1, a call whose attempts all end
\* in a status >= 500 response or a transport fault makes exactly max_retries
\* HTTP calls and sleeps retry_delay*1 .. retry_delay*(max_retries-1), with
\* no sleep after the final attempt, and fails with a BountyBoardError that
\* carries the last status, or reports the failed request when the last
\* attempt was a fault.
C16_ExhaustionCountsAndError ==
    \A m \in {sync, async} :
        (max_retries >= 1 /\ AllTransient(m)) =>
            /\ m.calls = max_retries
            /\ Len(m.seen) = max_retries
            /\ m.sleeps = Backoffs(max_retries - 1)
            /\ m.result.kind = "BountyBoardError"
            /\ IF m.seen[max_retries].kind = "fault"
               THEN m.result = RequestFailed
               ELSE /\ m.result.message = "API error"
                    /\ m.result.status = m.seen[max_retries].status

\* C18: in both clients, BountyBoardError("Max retries exceeded") is raised
\* only when max_retries <= 0, and then after no HTTP call and no sleep; a
\* request made with max_retries <= 0 ends with it, and with max_retries >= 1
\* no sequence of attempt outcomes leads to it.
C18_DefensiveBranchOnlyWithoutRetries ==
    \A m \in {sync, async} :
        /\ (m.result = MaxRetriesExceeded) =>
               max_retries <= 0 /\ m.calls = 0 /\ m.sleeps = <<>>
        /\ (max_retries <= 0 /\ op.name # "none" /\ m.result.kind # "ValueError")
               => (m.pc = "done" /\ m.result = MaxRetriesExceeded)
        /\ (max_retries >= 1 /\ m.pc = "done") =>
               m.result.message # "Max retries exceeded"

C18_Witness ==
    /\ max_retries = 0
    /\ op.name = "get_bounty"
    /\ sync.result = MaxRetriesExceeded
    /\ async.result = MaxRetriesExceeded
    /\ async.calls = 0
    /\ sessions = <<"open">>

-----------------------------------------------------------------------------
(* Properties of session ownership, under SpecSession.                     *)

\* the sessions that were created and are not closed
OpenSessions == { i \in 1..Len(sessions) : sessions[i] = "open" }

\* no close() is under way and the client holds no session, or a closed one
Released == ~closing /\ (session = 0 \/ sessions[session] = "closed")

\* C19: the non-blocking client has at most one open session at any time,
\* the one it holds, and whenever it has been released by close() or by
\* leaving its scope, every session it ever created is closed.
C19_NoOrphanedSession ==
    /\ Cardinality(OpenSessions) <= 1
    /\ OpenSessions \subseteq {session}
    /\ Released => OpenSessions = {}

-----------------------------------------------------------------------------
(* Properties of the mapping of responses, under SpecMap.                  *)

\* C12: whatever JSON object the success response carries, an operation
\* that fails on it fails with ValueError, BountyAlreadyClaimedError or
\* BountyBoardError, the three kinds of the taxonomy, and with nothing else.
C12_FailuresWithinTaxonomy ==
    mapped.kind \in {"none", "Bounty", "ClaimResult", "SubmitResult", "Stats",
                     "ValueError", "BountyAlreadyClaimedError",
                     "BountyBoardError"}

\* C13: every Bounty that Bounty.from_dict returns has a status among open,
\* claimed, submitted, completed and unknown, and unknown when the object
\* has no status key.
C13_StatusEnumerated ==
    (mapped.kind = "Bounty") =>
        /\ mapped.status.t = "str"
        /\ mapped.status.s \in
               {"open", "claimed", "submitted", "completed", "unknown"}
        /\ (data.status.t = "missing") => (mapped.status = JStr("unknown"))

\* C14: a Bounty that Bounty.from_dict returns has a Payment if and only if
\* the object has a payment object with a non-empty chain; a payment that
\* is missing, null, empty, or has a missing, null or empty chain gives none,
\* whatever its other keys.
C14_PaymentIffChain ==
    (mapped.kind = "Bounty") =>
        ( (mapped.payment.t = "Payment") <=>
              /\ data.payment.t = "object"
              /\ data.payment.chain.t = "str"
              /\ data.payment.chain.s # "" )

\* a payment object with a txHash and an empty chain: no Payment
C14_Witness ==
    /\ mapped.name = "get_bounty"
    /\ mapped.kind = "Bounty"
    /\ data.payment = PObject(JStr(""), JStr("0xT"), Iso(0, "Z", 0))
    /\ mapped.payment = NoPayment

\* equality of two datetimes: a naive and an aware datetime are never equal; two aware
\* ones are compared as instants
DtEq(a, b) ==
    /\ a.t = "datetime" /\ b.t = "datetime"
    /\ a.aware = b.aware
    /\ a.wall - a.off = b.wall - b.off

\* the instant a deadline stands for, in epoch milliseconds: the integer
\* itself, or the wall-clock time of the string less its offset from UTC
InstantOf(v) == IF v.t = "int" THEN v.ms ELSE v.ms - v.off

\* get_bounty was given a bounty object that Bounty.from_dict accepts when
\* its deadline is taken out, and whose deadline is an ISO-8601 string with
\* a Z or an explicit offset
IsoDeadlineMapped ==
    /\ mapped.name = "get_bounty"
    /\ from_dict([data EXCEPT !.deadline = TMissing]).kind = "Bounty"
    /\ data.deadline.t = "str"
    /\ data.deadline.zone \in {"Z", "offset"}

\* C15: Bounty.from_dict parses a string deadline in ISO-8601, with a Z or
\* with an explicit offset, to a value equal to the one it parses the
\* integer deadline of the same instant, in epoch milliseconds, to.
C15_EncodingsAgree ==
    IsoDeadlineMapped =>
        /\ mapped.kind = "Bounty"
        /\ DtEq(mapped.deadline,
                from_dict([data EXCEPT
                    !.deadline = TInt(InstantOf(data.deadline))]).deadline)

====
